---- MODULE Spec2Model ----
(***************************************************************************)
(* Model of the WaterCrawl datasource plugin: the crawl orchestrator,      *)
(* CrawlDatasource._get_website_crawl (src/datasources/crawl.py), and the  *)
(* credential validator, WatercrawlDatasourceProvider._validate_credentials*)
(* (src/provider/watercrawl_datasource.py).                                *)
(*                                                                         *)
(* The orchestrator is a single-threaded generator.  One action of the     *)
(* model is one stretch of the generator between two points where control  *)
(* leaves it: a call on the WaterCrawl client, the arrival of the next     *)
(* stream event (or of an exception in its place), a yield, a raise.       *)
(* Every record handed to the host by a yield is appended to emitted with  *)
(* the field values it has at the time of the yield.                       *)
(*                                                                         *)
(* Specifications: Spec (one crawl, a bounded number of stream events),    *)
(* SpecLive (one crawl whose stream starts again at every subscription,    *)
(* with fairness), SpecOptions (the request built from every combination   *)
(* of options), SpecValidate (one validation of credentials).              *)
(***************************************************************************)
EXTENDS Integers, Sequences, FiniteSets, TLC

VARIABLES
    pc,                    \* position of the generator
    source_url,            \* datasource_parameters.get("url")
    api_key,               \* self.runtime.credentials.get("api_key")
    crawl_request,         \* what create_crawl_request returned
    crawl_res,             \* the WebSiteInfo object that is mutated and yielded
    all_results,           \* list of WebSiteInfoDetail accumulated from the stream
    seen_urls,             \* set of URLs already accumulated
    consecutive_failures,  \* the failure counter of the monitoring loop
    emitted,               \* the records yielded so far, oldest first
    raised,                \* the exception that ended the run, or NoError
    calls,                 \* the calls made on the WaterCrawl client, oldest first
    slept,                 \* the arguments of the time.sleep calls, oldest first
    servicePages,          \* service side: the URLs of the pages of this crawl
    results_endpoint,      \* service side: "ok" or "failing" results listing
    nevents,               \* number of stream events delivered so far
    streak,                \* stream errors in a row since the last event
    terminal_consumed,     \* a finished/failed/canceled state event was delivered
    delivered,             \* per URL, the number of result events delivered for it
    cause,                 \* the exception as first raised, before any except clause
    validation,            \* the state of one run of _validate_credentials
    replay,                \* MaxEvents bounds the events of each subscription
                           \* (TRUE) or of the whole run (FALSE)
    last_event,            \* the stream event delivered last: type, url, status
    params,                \* datasource_parameters: the options of the crawl
    submitted              \* the spider_options and page_options passed to
                           \* create_crawl_request

vars == <<pc, source_url, api_key, crawl_request, crawl_res, all_results,
          seen_urls, consecutive_failures, emitted, raised, calls, slept,
          servicePages, results_endpoint, nevents, streak, terminal_consumed,
          delivered, cause, validation, replay, last_event,
          params, submitted>>

(***************************************************************************)
(* Bounds of the model.                                                    *)
(***************************************************************************)
MaxEvents == 3       \* stream events delivered in one run (or in one subscription)

LogCap == 2          \* length at which the logs stop growing when replay is TRUE

Urls == {"https://a.test/x", "https://a.test/y"}

(***************************************************************************)
(* Python values.                                                          *)
(***************************************************************************)
None == "None"

\* Python truthiness of an optional string: None and "" are falsy.
Truthy(v) == v # None /\ v # ""

\* a or b, for integers (0 is falsy).
IntOr(a, b) == IF a # 0 THEN a ELSE b

\* a or b, for optional strings.
StrOr(a, b) == IF Truthy(a) THEN a ELSE b

Last(s) == s[Len(s)]

\* Appending to a log, and counting in a log: exact unless replay is TRUE,
\* where a run has no bound on its length and the logs stop at LogCap.
Log(s, x) == IF replay /\ Len(s) >= LogCap THEN s ELSE Append(s, x)

Count(n) == IF replay /\ n >= LogCap THEN n ELSE n + 1

(***************************************************************************)
(* Exceptions.  An exception is its class and its message.                 *)
(***************************************************************************)
NoError == [cls |-> "None", msg |-> ""]

Exc(c, m) == [cls |-> c, msg |-> m]

\* The classes that "except ValueError" catches.
ValueErrorClasses == {"ValueError", "JSONDecodeError"}

\* The classes that the except clause of the monitoring loop catches:
\* RequestException and its subclasses.
RequestExceptionClasses ==
    {"RequestException", "ChunkedEncodingError", "ConnectionError", "Timeout", "HTTPError"}

\* Except clauses that also let a RequestException pass unchanged.
Surface_PassRequestErrors(e) ==
    IF e.cls = "ToolProviderCredentialValidationError" THEN e
    ELSE IF e.cls \in ValueErrorClasses \cup RequestExceptionClasses THEN e
    ELSE Exc("ValueError", "Failed to crawl website: " \o e.msg)

\* The except clauses that close the try block of _get_website_crawl: a
\* credential error and a ValueError pass unchanged, anything else is wrapped.
Surface(e) ==
    IF e.cls = "ToolProviderCredentialValidationError" THEN e
    ELSE IF e.cls \in ValueErrorClasses THEN e
    ELSE Exc("ValueError", "Failed to crawl website: " \o e.msg)

\* What create_crawl_request can raise (network, HTTP status, anything else).
SubmitExceptions ==
    { Exc("ConnectionError", "connection refused"),
      Exc("HTTPError", "403 Client Error"),
      Exc("KeyError", "options") }

\* What iterating the monitoring stream can raise.
StreamExceptions ==
    { Exc("ConnectionError", "connection reset"),
      Exc("Timeout", "read timed out"),
      Exc("ChunkedEncodingError", "connection broken"),
      Exc("KeyError", "type"),
      Exc("JSONDecodeError", "Expecting value") }

(***************************************************************************)
(* Stream events.                                                          *)
(***************************************************************************)
\* An event as far as the loop looks at it: its type, the url of its data
\* (result events) and the status of its data (state events).
Event(t, u, st) == [type |-> t, url |-> u, status |-> st]

NoEvent == Event("none", None, None)

TerminalStatuses == {"finished", "failed", "canceled"}

StateStatuses == {"running"} \cup TerminalStatuses

\* The "result" member of a result event's data: a string (a download URL),
\* a value that is neither string nor dict, or the page object with lengths
\* of its markdown and content texts and its metadata.
Page(md, ct, t, ogt, d, ogd) ==
    [kind |-> "dict", markdown |-> md, content |-> ct,
     title |-> t, og_title |-> ogt, description |-> d, og_description |-> ogd]

Payloads ==
    { [Page(0, 0, "", "", "", "") EXCEPT !.kind = "str"],
      Page(0, 0, "", "OG", "", ""),
      Page(5, 9, "T", "OG", "D", "") }

ResultData(u, p) == [url |-> u, result |-> p]

max_content_length == 100000

\* _process_result.  A content is its kind and the length of the page text
\* it carries: "text" is the page text as is, "truncated" its first
\* max_content_length characters followed by the truncation notice.
ProcessResult(data) ==
    LET result == data.result
        url    == IF data.url = None THEN "" ELSE data.url
        len    == IF result.markdown # 0 THEN result.markdown ELSE result.content
    IN  IF result.kind = "str"
        THEN [source_url |-> url, content |-> [kind |-> "error_url", len |-> 0],
              title |-> "", description |-> ""]
        ELSE IF result.kind # "dict"
        THEN [source_url |-> url, content |-> [kind |-> "error_type", len |-> 0],
              title |-> "", description |-> ""]
        ELSE [source_url |-> url,
              content |-> IF len = 0 THEN [kind |-> "none", len |-> 0]
                          ELSE IF len > max_content_length
                          THEN [kind |-> "truncated", len |-> max_content_length]
                          ELSE [kind |-> "text", len |-> len],
              title |-> StrOr(result.title, StrOr(result.og_title, "")),
              description |-> StrOr(result.description, StrOr(result.og_description, ""))]

(***************************************************************************)
(* The monitoring loop's pieces.                                           *)
(***************************************************************************)
max_consecutive_failures == 3

\* A deduplication test that forgets the seen-URL set.
IsNewUrl_NoDedup(u, seen) == Truthy(u)

\* A deduplication test that does not look whether there is a URL at all.
IsNewUrl_AllowEmpty(u, seen) == u \notin seen

\* The deduplication test of a result event.
IsNewUrl(u, seen) == Truthy(u) /\ u \notin seen

\* A progress report that carries only the newest page, not all so far.
ProgressRecord_NotCumulative(res, results) ==
    [res EXCEPT !.completed = Len(results),
                !.web_info_list = <<results[Len(results)]>>,
                !.status = "processing"]

\* The record of a progress report after a new result.
ProgressRecord(res, results) ==
    [res EXCEPT !.completed = Len(results),
                !.web_info_list = results,
                !.status = "processing"]

\* A final report that keeps the expected total instead of the actual count.
FinalRecord_StaleTotal(res, results) ==
    [res EXCEPT !.status = "completed",
                !.web_info_list = results,
                !.completed = Len(results)]

\* The record of the final report (same assignments at both places).
FinalRecord(res, results) ==
    [res EXCEPT !.status = "completed",
                !.web_info_list = results,
                !.completed = Len(results),
                !.total = Len(results)]

\* The terminal-state branch leaving the loop with break instead of return.
AfterTerminal_Break == "finalize"

\* The terminal-state branch without its return: the loop goes on.
AfterTerminal_NoReturn == "stream"

\* Where the generator is after the yield of the terminal-state branch
\* (return).
AfterTerminal == "done"

NoRecord == [web_info_list |-> <<>>, status |-> "unset", total |-> 0, completed |-> 0]

NoRequest == [uuid |-> None, page_limit |-> 0]

(***************************************************************************)
(* The options of the crawl and the request built from them.  A text is a  *)
(* sequence of characters; an optional text parameter is given or not.     *)
(***************************************************************************)
Opt(g, t) == [given |-> g, text |-> t]

Absent == Opt(FALSE, <<>>)

\* Python truthiness of an optional text: absent and empty are falsy.
TextTruthy(o) == o.given /\ o.text # <<>>

\* str.split(","): the pieces between the commas, empty pieces included.
RECURSIVE Split(_)
Split(t) ==
    IF \A i \in 1..Len(t) : t[i] # ","
    THEN <<t>>
    ELSE LET i == CHOOSE k \in 1..Len(t) :
                    t[k] = "," /\ \A j \in 1..(k - 1) : t[j] # ","
         IN  <<SubSeq(t, 1, i - 1)>> \o Split(SubSeq(t, i + 1, Len(t)))

\* param.split(",") if param else []
ParseList(o) == IF TextTruthy(o) THEN Split(o.text) ELSE <<>>

\* A dict with one more key.
With(dict, key, value) == (key :> value) @@ dict

\* A dict with one more key if the value is truthy (cond).
WithIf(cond, dict, key, value) == IF cond THEN With(dict, key, value) ELSE dict

\* spider_options as built from the parameters.
SpiderOptions(ps, limit) ==
    LET base == With(With(With(With(<<>>,
                  "max_depth", IntOr(ps.max_depth, 1)),
                  "page_limit", IntOr(limit, 1)),
                  "exclude_paths", ParseList(ps.exclude_paths)),
                  "include_paths", ParseList(ps.include_paths))
        dom  == WithIf(ParseList(ps.allowed_domains) # <<>>, base,
                       "allowed_domains", ParseList(ps.allowed_domains))
    IN  WithIf(TextTruthy(ps.proxy_server_slug), dom,
               "proxy_server", ps.proxy_server_slug.text)

\* page_options as built from the parameters; extra_headers is the JSON
\* text of the headers, already known to parse.
PageOptions(ps, extra_headers) ==
    LET base == With(With(<<>>,
                  "only_main_content", ps.only_main_content),
                  "ignore_rendering", ps.ignore_rendering)
        ex   == WithIf(ParseList(ps.exclude_tags) # <<>>, base,
                       "exclude_tags", ParseList(ps.exclude_tags))
        inc  == WithIf(ParseList(ps.include_tags) # <<>>, ex,
                       "include_tags", ParseList(ps.include_tags))
        loc  == WithIf(TextTruthy(ps.locale), inc, "locale", ps.locale.text)
    IN  WithIf(Truthy(extra_headers), loc, "extra_headers", extra_headers)

\* The parameters with every option left out (only_main_content and
\* ignore_rendering then take their defaults, True and False).
NoOptions ==
    [max_depth |-> 0, exclude_paths |-> Absent, include_paths |-> Absent,
     allowed_domains |-> Absent, exclude_tags |-> Absent, include_tags |-> Absent,
     locale |-> Absent, proxy_server_slug |-> Absent,
     only_main_content |-> TRUE, ignore_rendering |-> FALSE]

NoSubmission == [spider_options |-> <<>>, page_options |-> <<>>]

(***************************************************************************)
(* The credential validator, WatercrawlDatasourceProvider                  *)
(* (src/provider/watercrawl_datasource.py).  A run of it is independent of *)
(* any crawl.                                                              *)
(***************************************************************************)
\* A base URL as urlparse sees it; given is FALSE for an absent or empty one.
BaseUrl(g, s, n) == [given |-> g, scheme |-> s, netloc |-> n]

BaseUrls ==
    { BaseUrl(FALSE, "", ""),
      BaseUrl(TRUE, "https", "app.watercrawl.dev"),
      BaseUrl(TRUE, "http", "localhost:8000"),
      BaseUrl(TRUE, "ftp", "files.test"),
      BaseUrl(TRUE, "https", ""),
      BaseUrl(TRUE, "", "") }

\* credentials.get('base_url', None) or 'https://app.watercrawl.dev/'
EffectiveBaseUrl(b) == IF b.given THEN b ELSE BaseUrl(TRUE, "https", "app.watercrawl.dev")

\* validate_url: the scheme is http or https and the netloc is not empty.
validate_url(b) == b.scheme \in {"http", "https"} /\ b.netloc # ""

\* An exception of the validator: class, message and, for an HTTPError, the
\* status code of its response (0 otherwise).
VExc(c, m, st) == [cls |-> c, msg |-> m, status |-> st]

NoVError == VExc("None", "", 0)

\* The outcomes of get_crawl_requests_list: a response with or without the
\* 'results' field, or an exception.
ListOutcomes ==
    { [kind |-> "response", has_results |-> TRUE, exc |-> NoVError],
      [kind |-> "response", has_results |-> FALSE, exc |-> NoVError] }
    \cup { [kind |-> "raise", has_results |-> FALSE, exc |-> e] :
             e \in { VExc("HTTPError", "401 Client Error: Unauthorized", 401),
                     VExc("HTTPError", "404 Client Error: Not Found", 404),
                     VExc("HTTPError", "403 Client Error: Forbidden", 403),
                     VExc("HTTPError", "429 Client Error: Too Many Requests", 429),
                     VExc("HTTPError", "500 Server Error", 500),
                     VExc("HTTPError", "502 Server Error: Bad Gateway", 502),
                     VExc("ConnectionError", "connection refused", 0),
                     VExc("Timeout", "read timed out", 0),
                     VExc("JSONDecodeError", "Expecting value", 0) } }

\* The two except clauses of _validate_credentials applied to an exception
\* raised in its try block.
ValidatorSurface(e) ==
    IF e.cls = "HTTPError"
    THEN IF e.status = 401
         THEN VExc("ToolProviderCredentialValidationError", "Invalid API key", 0)
         ELSE IF e.status = 404
         THEN VExc("ToolProviderCredentialValidationError", "Invalid base URL", 0)
         ELSE e
    ELSE VExc("ToolProviderCredentialValidationError", e.msg, 0)

NoValidation ==
    [pc |-> "idle", base_url |-> BaseUrl(FALSE, "", ""), api_key |-> None,
     cause |-> NoVError, raised |-> NoVError, calls |-> 0]

(***************************************************************************)
(* Initial state: the generator has been created, nothing has run.         *)
(***************************************************************************)
Init ==
    /\ pc = "start"
    /\ source_url \in {None, "", "https://a.test"}
    /\ api_key \in {None, "", "wc-key"}
    /\ crawl_request = NoRequest
    /\ crawl_res = NoRecord
    /\ all_results = <<>>
    /\ seen_urls = {}
    /\ consecutive_failures = 0
    /\ emitted = <<>>
    /\ raised = NoError
    /\ calls = <<>>
    /\ slept = <<>>
    /\ servicePages = {}
    /\ results_endpoint = "ok"
    /\ nevents = 0
    /\ streak = 0
    /\ terminal_consumed = FALSE
    /\ delivered = [u \in Urls |-> 0]
    /\ cause = NoError
    /\ validation = NoValidation
    /\ replay = FALSE
    /\ last_event = NoEvent
    /\ params = NoOptions
    /\ submitted = NoSubmission

\* A URL check that tests for None only and lets the empty string through.
CheckUrl_NoneOnly ==
    /\ pc = "start"
    /\ IF source_url = None
       THEN /\ raised' = Exc("ValueError", "Url is required")
            /\ cause' = raised'
            /\ pc' = "raised"
       ELSE /\ pc' = "check_key"
            /\ UNCHANGED <<raised, cause>>
    /\ UNCHANGED <<source_url, api_key, crawl_request, crawl_res, all_results,
                   seen_urls, consecutive_failures, emitted, calls, slept,
                   servicePages, results_endpoint, nevents, streak, terminal_consumed,
                   delivered>>
    /\ UNCHANGED <<validation, replay, last_event, params, submitted>>

\* if not source_url: raise ValueError("Url is required")
CheckUrl ==
    /\ pc = "start"
    /\ IF ~Truthy(source_url)
       THEN /\ raised' = Exc("ValueError", "Url is required")
            /\ cause' = raised'
            /\ pc' = "raised"
       ELSE /\ pc' = "check_key"
            /\ UNCHANGED <<raised, cause>>
    /\ UNCHANGED <<source_url, api_key, crawl_request, crawl_res, all_results,
                   seen_urls, consecutive_failures, emitted, calls, slept,
                   servicePages, results_endpoint, nevents, streak, terminal_consumed,
                   delivered>>
    /\ UNCHANGED <<validation, replay, last_event, params, submitted>>

\* An API key check whose error is a plain exception raised after the client
\* was constructed inside the try block, so that the last except clause
\* wraps it.
CheckApiKey_Wrapped ==
    /\ pc = "check_key"
    /\ IF ~Truthy(api_key)
       THEN /\ cause' = Exc("Exception", "api key is required")
            /\ raised' = Surface(cause')
            /\ calls' = Append(calls, "WaterCrawlAPIClient")
            /\ pc' = "raised"
       ELSE /\ pc' = "setup"
            /\ UNCHANGED <<raised, cause, calls>>
    /\ UNCHANGED <<source_url, api_key, crawl_request, crawl_res, all_results,
                   seen_urls, consecutive_failures, emitted, slept,
                   servicePages, results_endpoint, nevents, streak, terminal_consumed,
                   delivered>>
    /\ UNCHANGED <<validation, replay, last_event, params, submitted>>

\* if not credentials.get("api_key"): raise ToolProviderCredentialValidationError
\* (outside the try block, so no except clause sees it).
CheckApiKey ==
    /\ pc = "check_key"
    /\ IF ~Truthy(api_key)
       THEN /\ raised' = Exc("ToolProviderCredentialValidationError", "api key is required")
            /\ cause' = raised'
            /\ pc' = "raised"
       ELSE /\ pc' = "setup"
            /\ UNCHANGED <<raised, cause>>
    /\ UNCHANGED <<source_url, api_key, crawl_request, crawl_res, all_results,
                   seen_urls, consecutive_failures, emitted, calls, slept,
                   servicePages, results_endpoint, nevents, streak, terminal_consumed,
                   delivered>>
    /\ UNCHANGED <<validation, replay, last_event, params, submitted>>

\* The try block up to the first yield: the client is constructed, the
\* parameters are parsed, the crawl request is submitted and the echoed
\* page_limit is read.  extra_headers is absent, valid JSON or malformed;
\* limit is absent (0) or a number.  On success the service holds a crawl
\* with some set of pages and its results listing works or fails.
Submit ==
    /\ pc = "setup"
    /\ \E extra_headers \in {None, "{\"X-A\": \"1\"}", "{bad"}, limit \in {0, 2} :
         IF extra_headers = "{bad"
         THEN /\ calls' = Append(calls, "WaterCrawlAPIClient")
              /\ cause' = Exc("ValueError", "extra_headers must be valid JSON")
              /\ raised' = Surface(cause')
              /\ pc' = "raised"
              /\ UNCHANGED <<crawl_request, servicePages, results_endpoint, submitted>>
         ELSE /\ calls' = calls \o <<"WaterCrawlAPIClient", "create_crawl_request">>
              /\ submitted' = [spider_options |-> SpiderOptions(params, limit),
                               page_options |-> PageOptions(params, extra_headers)]
              /\ \/ \E e \in SubmitExceptions :
                       /\ cause' = e
                       /\ raised' = Surface(e)
                       /\ pc' = "raised"
                       /\ UNCHANGED <<crawl_request, servicePages, results_endpoint>>
                 \/ /\ crawl_request' =
                         [uuid |-> "uuid-1",
                          page_limit |-> submitted'.spider_options["page_limit"]]
                    /\ servicePages' \in SUBSET Urls
                    /\ results_endpoint' \in {"ok", "failing"}
                    /\ pc' = "emit_initial"
                    /\ UNCHANGED <<raised, cause>>
    /\ UNCHANGED <<source_url, api_key, crawl_res, all_results, seen_urls,
                   consecutive_failures, emitted, slept, nevents, streak,
                   terminal_consumed,
                   delivered>>
    /\ UNCHANGED <<validation, replay, last_event, params>>

\* An initial record whose total is 0 instead of the echoed page_limit.
EmitInitial_ZeroTotal ==
    /\ pc = "emit_initial"
    /\ crawl_res' = [web_info_list |-> <<>>, status |-> "processing",
                     total |-> 0, completed |-> 0]
    /\ emitted' = Append(emitted, crawl_res')
    /\ all_results' = <<>>
    /\ seen_urls' = {}
    /\ consecutive_failures' = 0
    /\ pc' = "loop"
    /\ UNCHANGED <<source_url, api_key, crawl_request, raised, calls, slept,
                   servicePages, results_endpoint, nevents, streak, terminal_consumed,
                   delivered, cause>>
    /\ UNCHANGED <<validation, replay, last_event, params, submitted>>

\* crawl_res = WebSiteInfo(...); yield; then the loop's locals are set up.
EmitInitial ==
    /\ pc = "emit_initial"
    /\ crawl_res' = [web_info_list |-> <<>>, status |-> "processing",
                     total |-> crawl_request.page_limit, completed |-> 0]
    /\ emitted' = Append(emitted, crawl_res')
    /\ all_results' = <<>>
    /\ seen_urls' = {}
    /\ consecutive_failures' = 0
    /\ pc' = "loop"
    /\ UNCHANGED <<source_url, api_key, crawl_request, raised, calls, slept,
                   servicePages, results_endpoint, nevents, streak, terminal_consumed,
                   delivered, cause>>
    /\ UNCHANGED <<validation, replay, last_event, params, submitted>>

\* while consecutive_failures < max_consecutive_failures: subscribe.
Subscribe ==
    /\ pc = "loop"
    /\ IF consecutive_failures < max_consecutive_failures
       THEN /\ calls' = Log(calls, "monitor_crawl_request")
            /\ nevents' = IF replay THEN 0 ELSE nevents
            /\ pc' = "stream"
       ELSE /\ pc' = "finalize"
            /\ UNCHANGED <<calls, nevents>>
    /\ UNCHANGED <<source_url, api_key, crawl_request, crawl_res, all_results,
                   seen_urls, consecutive_failures, emitted, raised, slept,
                   servicePages, results_endpoint, streak, terminal_consumed,
                   delivered, cause>>
    /\ UNCHANGED <<validation, replay, last_event, params, submitted>>

\* The stream delivers a result event.
OnResult ==
    /\ pc = "stream"
    /\ nevents < MaxEvents
    /\ \E u \in servicePages \cup {None, ""}, p \in Payloads :
         LET result_data == ResultData(u, p) IN
         /\ IF IsNewUrl(result_data.url, seen_urls)
            THEN /\ seen_urls' = seen_urls \cup {result_data.url}
                 /\ all_results' = Append(all_results, ProcessResult(result_data))
                 /\ crawl_res' = ProgressRecord(crawl_res, all_results')
                 /\ emitted' = Append(emitted, crawl_res')
            ELSE UNCHANGED <<seen_urls, all_results, crawl_res, emitted>>
         /\ delivered' = IF u \in Urls THEN [delivered EXCEPT ![u] = Count(@)] ELSE delivered
         /\ last_event' = Event("result", u, None)
    /\ consecutive_failures' = 0
    /\ nevents' = nevents + 1
    /\ streak' = 0
    /\ UNCHANGED <<pc, source_url, api_key, crawl_request, raised, calls, slept,
                   servicePages, results_endpoint, terminal_consumed,
                   cause>>
    /\ UNCHANGED <<validation, replay, params, submitted>>

\* A state handler that takes the total from every state event (here a
\* document count of 5) and reports it.
OnState_LiveTotal ==
    /\ pc = "stream"
    /\ nevents < MaxEvents
    /\ \E status \in StateStatuses :
         /\ IF status \in {"finished", "failed", "canceled"}
            THEN /\ crawl_res' = FinalRecord(crawl_res, all_results)
                 /\ emitted' = Append(emitted, crawl_res')
                 /\ pc' = AfterTerminal
                 /\ terminal_consumed' = TRUE
            ELSE /\ crawl_res' = [crawl_res EXCEPT !.total = 5]
                 /\ emitted' = Append(emitted, crawl_res')
                 /\ UNCHANGED <<pc, terminal_consumed>>
         /\ last_event' = Event("state", None, status)
    /\ consecutive_failures' = 0
    /\ nevents' = nevents + 1
    /\ streak' = 0
    /\ UNCHANGED <<source_url, api_key, crawl_request, all_results, seen_urls,
                   raised, calls, slept, servicePages, results_endpoint,
                   delivered, cause>>
    /\ UNCHANGED <<validation, replay, params, submitted>>

\* The stream delivers a state event.
OnState ==
    /\ pc = "stream"
    /\ nevents < MaxEvents
    /\ \E status \in StateStatuses :
         /\ IF status \in {"finished", "failed", "canceled"}
            THEN /\ crawl_res' = FinalRecord(crawl_res, all_results)
                 /\ emitted' = Append(emitted, crawl_res')
                 /\ pc' = AfterTerminal
                 /\ terminal_consumed' = TRUE
            ELSE UNCHANGED <<crawl_res, emitted, pc, terminal_consumed>>
         /\ last_event' = Event("state", None, status)
    /\ consecutive_failures' = 0
    /\ nevents' = nevents + 1
    /\ streak' = 0
    /\ UNCHANGED <<source_url, api_key, crawl_request, all_results, seen_urls,
                   raised, calls, slept, servicePages, results_endpoint,
                   delivered, cause>>
    /\ UNCHANGED <<validation, replay, params, submitted>>

\* A feed event that does not reset the failure counter (the reset placed
\* inside the result and state branches).
OnFeed_NoReset ==
    /\ pc = "stream"
    /\ nevents < MaxEvents
    /\ UNCHANGED consecutive_failures
    /\ nevents' = nevents + 1
    /\ streak' = 0
    /\ UNCHANGED <<pc, source_url, api_key, crawl_request, crawl_res, all_results,
                   seen_urls, emitted, raised, calls, slept, servicePages,
                   results_endpoint, terminal_consumed,
                   delivered, cause>>
    /\ last_event' = Event("feed", None, None)
    /\ UNCHANGED <<validation, replay, params, submitted>>

\* The stream delivers a feed event (or one of any other type).
OnFeed ==
    /\ pc = "stream"
    /\ nevents < MaxEvents
    /\ consecutive_failures' = 0
    /\ nevents' = nevents + 1
    /\ streak' = 0
    /\ UNCHANGED <<pc, source_url, api_key, crawl_request, crawl_res, all_results,
                   seen_urls, emitted, raised, calls, slept, servicePages,
                   results_endpoint, terminal_consumed,
                   delivered, cause>>
    /\ last_event' = Event("feed", None, None)
    /\ UNCHANGED <<validation, replay, params, submitted>>

\* The stream ends without a terminal state event: break.
StreamEnd ==
    /\ pc = "stream"
    /\ pc' = "finalize"
    /\ UNCHANGED <<source_url, api_key, crawl_request, crawl_res, all_results,
                   seen_urls, consecutive_failures, emitted, raised, calls, slept,
                   servicePages, results_endpoint, nevents, streak, terminal_consumed,
                   delivered, cause>>
    /\ UNCHANGED <<validation, replay, last_event, params, submitted>>

\* A failure handler that compares with <= and so backs off and retries once
\* more after the last failure of the budget.
TransientFailure_OffByOne ==
    /\ pc = "stream"
    /\ \E e \in StreamExceptions :
         /\ e.cls \in RequestExceptionClasses
         /\ consecutive_failures' = consecutive_failures + 1
         /\ streak' = streak + 1
         /\ IF consecutive_failures' <= max_consecutive_failures
            THEN /\ slept' = Log(slept, 2 * consecutive_failures')
                 /\ pc' = "loop"
            ELSE /\ pc' = "finalize"
                 /\ UNCHANGED slept
    /\ UNCHANGED <<source_url, api_key, crawl_request, crawl_res, all_results,
                   seen_urls, emitted, raised, calls, servicePages,
                   results_endpoint, nevents, terminal_consumed,
                   delivered, cause>>
    /\ UNCHANGED <<validation, replay, last_event, params, submitted>>

\* A failure handler with a constant backoff of 2 seconds.
TransientFailure_ConstantBackoff ==
    /\ pc = "stream"
    /\ \E e \in StreamExceptions :
         /\ e.cls \in RequestExceptionClasses
         /\ consecutive_failures' = consecutive_failures + 1
         /\ streak' = streak + 1
         /\ IF consecutive_failures' < max_consecutive_failures
            THEN /\ slept' = Log(slept, 2)
                 /\ pc' = "loop"
            ELSE /\ pc' = "finalize"
                 /\ UNCHANGED slept
    /\ UNCHANGED <<source_url, api_key, crawl_request, crawl_res, all_results,
                   seen_urls, emitted, raised, calls, servicePages,
                   results_endpoint, nevents, terminal_consumed,
                   delivered, cause>>
    /\ UNCHANGED <<validation, replay, last_event, params, submitted>>

\* The stream raises a RequestException: count it, back off and retry, or
\* give up.
TransientFailure ==
    /\ pc = "stream"
    /\ \E e \in StreamExceptions :
         /\ e.cls \in RequestExceptionClasses
         /\ consecutive_failures' = consecutive_failures + 1
         /\ streak' = streak + 1
         /\ IF consecutive_failures' < max_consecutive_failures
            THEN /\ slept' = Log(slept, 2 * consecutive_failures')
                 /\ pc' = "loop"
            ELSE /\ pc' = "finalize"
                 /\ UNCHANGED slept
    /\ UNCHANGED <<source_url, api_key, crawl_request, crawl_res, all_results,
                   seen_urls, emitted, raised, calls, servicePages,
                   results_endpoint, nevents, terminal_consumed,
                   delivered, cause>>
    /\ UNCHANGED <<validation, replay, last_event, params, submitted>>

\* The stream raises anything else: the except clauses of the try block.
UnexpectedFailure ==
    /\ pc = "stream"
    /\ \E e \in StreamExceptions :
         /\ e.cls \notin RequestExceptionClasses
         /\ cause' = e
         /\ raised' = Surface(e)
         /\ pc' = "raised"
    /\ UNCHANGED <<source_url, api_key, crawl_request, crawl_res, all_results,
                   seen_urls, consecutive_failures, emitted, calls, slept,
                   servicePages, results_endpoint, nevents, streak, terminal_consumed,
                   delivered>>
    /\ UNCHANGED <<validation, replay, last_event, params, submitted>>

\* The pages of a set of URLs as a result list, in some fixed order.
RECURSIVE FetchedPages(_)
FetchedPages(S) ==
    IF S = {} THEN <<>>
    ELSE LET u == CHOOSE x \in S : TRUE
         IN  <<ProcessResult(ResultData(u, Page(5, 9, "T", "OG", "D", "")))>>
               \o FetchedPages(S \ {u})

\* A finalization that lists the results at the service and reports those.
Finalize_Fetch ==
    /\ pc = "finalize"
    /\ calls' = Append(calls, "download_results")
    /\ crawl_res' = FinalRecord(crawl_res, FetchedPages(servicePages))
    /\ emitted' = Append(emitted, crawl_res')
    /\ pc' = "done"
    /\ UNCHANGED <<source_url, api_key, crawl_request, all_results, seen_urls,
                   consecutive_failures, raised, slept, servicePages,
                   results_endpoint, nevents, streak, terminal_consumed,
                   delivered, cause>>
    /\ UNCHANGED <<validation, replay, last_event, params, submitted>>

\* A finalization that reports an empty list when the results listing of the
\* service is failing.
Finalize_EmptyOnFailure ==
    /\ pc = "finalize"
    /\ crawl_res' = FinalRecord(crawl_res, IF results_endpoint = "failing"
                                           THEN <<>> ELSE all_results)
    /\ emitted' = Append(emitted, crawl_res')
    /\ pc' = "done"
    /\ UNCHANGED <<source_url, api_key, crawl_request, all_results, seen_urls,
                   consecutive_failures, raised, calls, slept, servicePages,
                   results_endpoint, nevents, streak, terminal_consumed,
                   delivered, cause>>
    /\ UNCHANGED <<validation, replay, last_event, params, submitted>>

\* Final message if monitoring ended without explicit completion.
Finalize ==
    /\ pc = "finalize"
    /\ crawl_res' = FinalRecord(crawl_res, all_results)
    /\ emitted' = Append(emitted, crawl_res')
    /\ pc' = "done"
    /\ UNCHANGED <<source_url, api_key, crawl_request, all_results, seen_urls,
                   consecutive_failures, raised, calls, slept, servicePages,
                   results_endpoint, nevents, streak, terminal_consumed,
                   delivered, cause>>
    /\ UNCHANGED <<validation, replay, last_event, params, submitted>>
Next ==
    \/ CheckUrl
    \/ CheckApiKey
    \/ Submit
    \/ EmitInitial
    \/ Subscribe
    \/ OnResult
    \/ OnState
    \/ OnFeed
    \/ StreamEnd
    \/ TransientFailure
    \/ UnexpectedFailure
    \/ Finalize

Spec == Init /\ [][Next]_vars

\* A crawl with a url and an api key whose stream starts again from its
\* beginning at every subscription, each subscription delivering at most
\* MaxEvents events.
InitLive ==
    /\ pc = "start"
    /\ source_url = "https://a.test"
    /\ api_key = "wc-key"
    /\ crawl_request = NoRequest
    /\ crawl_res = NoRecord
    /\ all_results = <<>>
    /\ seen_urls = {}
    /\ consecutive_failures = 0
    /\ emitted = <<>>
    /\ raised = NoError
    /\ calls = <<>>
    /\ slept = <<>>
    /\ servicePages = {}
    /\ results_endpoint = "ok"
    /\ nevents = 0
    /\ streak = 0
    /\ terminal_consumed = FALSE
    /\ delivered = [u \in Urls |-> 0]
    /\ cause = NoError
    /\ validation = NoValidation
    /\ replay = TRUE
    /\ last_event = NoEvent
    /\ params = NoOptions
    /\ submitted = NoSubmission

\* The host keeps pulling records and the service keeps answering: whenever
\* the generator can take a step, or the stream can deliver, end or fail, one
\* of these eventually happens.
SpecLive == InitLive /\ [][Next]_vars /\ WF_vars(Next)

\* The values tried for a list-valued option: absent, empty, "a,b" and "a,".
ListValues ==
    { Absent, Opt(TRUE, <<>>), Opt(TRUE, <<"a", ",", "b">>), Opt(TRUE, <<"a", ",">>) }

TextValues == { Absent, Opt(TRUE, <<"d", "e">>) }

\* A crawl with a url and an api key and any combination of options.
InitOptions ==
    /\ pc = "start"
    /\ source_url = "https://a.test"
    /\ api_key = "wc-key"
    /\ crawl_request = NoRequest
    /\ crawl_res = NoRecord
    /\ all_results = <<>>
    /\ seen_urls = {}
    /\ consecutive_failures = 0
    /\ emitted = <<>>
    /\ raised = NoError
    /\ calls = <<>>
    /\ slept = <<>>
    /\ servicePages = {}
    /\ results_endpoint = "ok"
    /\ nevents = 0
    /\ streak = 0
    /\ terminal_consumed = FALSE
    /\ delivered = [u \in Urls |-> 0]
    /\ cause = NoError
    /\ validation = NoValidation
    /\ replay = FALSE
    /\ last_event = NoEvent
    /\ submitted = NoSubmission
    /\ params \in [max_depth : {0, 3},
                   exclude_paths : ListValues, include_paths : ListValues,
                   allowed_domains : ListValues, exclude_tags : ListValues,
                   include_tags : ListValues,
                   locale : TextValues, proxy_server_slug : TextValues,
                   only_main_content : {TRUE}, ignore_rendering : {FALSE}]

\* The run up to the submission of the crawl request.
NextOptions ==
    \/ CheckUrl
    \/ CheckApiKey
    \/ Submit

SpecOptions == InitOptions /\ [][NextOptions]_vars

\* The orchestrator's variables, which a run of the validator leaves alone.
crawl_vars == <<pc, source_url, api_key, crawl_request, crawl_res, all_results,
                seen_urls, consecutive_failures, emitted, raised, calls, slept,
                servicePages, results_endpoint, nevents, streak, terminal_consumed,
                delivered, cause, replay, last_event, params, submitted>>

\* _validate_credentials is called with some credentials; no crawl runs.
InitValidate ==
    /\ pc = "start"
    /\ source_url = None
    /\ api_key = None
    /\ crawl_request = NoRequest
    /\ crawl_res = NoRecord
    /\ all_results = <<>>
    /\ seen_urls = {}
    /\ consecutive_failures = 0
    /\ emitted = <<>>
    /\ raised = NoError
    /\ calls = <<>>
    /\ slept = <<>>
    /\ servicePages = {}
    /\ results_endpoint = "ok"
    /\ nevents = 0
    /\ streak = 0
    /\ terminal_consumed = FALSE
    /\ delivered = [u \in Urls |-> 0]
    /\ cause = NoError
    /\ replay = FALSE
    /\ last_event = NoEvent
    /\ params = NoOptions
    /\ submitted = NoSubmission
    /\ \E b \in BaseUrls, k \in {"absent", "", "wc-key"} :
         validation = [NoValidation EXCEPT !.pc = "start", !.base_url = b, !.api_key = k]

\* base_url = ... or default; if not self.validate_url(base_url): raise
ValidateUrl ==
    /\ validation.pc = "start"
    /\ IF ~validate_url(EffectiveBaseUrl(validation.base_url))
       THEN validation' =
              [validation EXCEPT
                 !.pc = "raised",
                 !.cause = VExc("ToolProviderCredentialValidationError", "Invalid base URL", 0),
                 !.raised = VExc("ToolProviderCredentialValidationError", "Invalid base URL", 0)]
       ELSE validation' = [validation EXCEPT !.pc = "request"]
    /\ UNCHANGED crawl_vars

\* The try block: credentials["api_key"], the list request, the test for the
\* 'results' field, and the except clauses.
ListRequest ==
    /\ validation.pc = "request"
    /\ IF validation.api_key = "absent"
       THEN LET e == VExc("KeyError", "'api_key'", 0) IN
            validation' = [validation EXCEPT !.pc = "raised", !.cause = e,
                                             !.raised = ValidatorSurface(e)]
       ELSE \E o \in ListOutcomes :
              LET e == IF o.kind = "raise" THEN o.exc
                       ELSE IF ~o.has_results
                       THEN VExc("ToolProviderCredentialValidationError",
                                 "Invalid URL or API key", 0)
                       ELSE NoVError
              IN  validation' =
                    IF e = NoVError
                    THEN [validation EXCEPT !.pc = "valid", !.calls = @ + 1]
                    ELSE [validation EXCEPT !.pc = "raised", !.calls = @ + 1,
                                            !.cause = e, !.raised = ValidatorSurface(e)]
    /\ UNCHANGED crawl_vars

NextValidate ==
    \/ ValidateUrl
    \/ ListRequest

SpecValidate == InitValidate /\ [][NextValidate]_vars

(***************************************************************************)
(* Properties.                                                             *)
(***************************************************************************)
Statuses(s) == [k \in 1..Len(s) |-> s[k].status]

CompletedCount(s) == Cardinality({k \in 1..Len(s) : s[k].status = "completed"})

NoDuplicateUrls(list) ==
    \A i, j \in 1..Len(list) : list[i].source_url = list[j].source_url => i = j

MonitorCalls == Cardinality({k \in 1..Len(calls) : calls[k] = "monitor_crawl_request"})

\* C1: when a run has ended without raising, the last record emitted has
\* status 'completed' and its total, its completed and the length of its
\* web_info_list are equal.
C1_FinalRecordConsistent ==
    (pc = "done" /\ raised = NoError) =>
        /\ emitted # <<>>
        /\ Last(emitted).status = "completed"
        /\ Last(emitted).total = Last(emitted).completed
        /\ Last(emitted).completed = Len(Last(emitted).web_info_list)

\* A run that ended normally with two pages although the expected total was 1.
C1_Witness ==
    /\ pc = "done"
    /\ raised = NoError
    /\ emitted[1].total = 1
    /\ Len(Last(emitted).web_info_list) = 2

\* C2: the web_info_list of every emitted record contains each source URL at
\* most once, whatever URLs the stream repeats and however often it is
\* re-subscribed.
C2_UrlsUnique ==
    \A k \in 1..Len(emitted) : NoDuplicateUrls(emitted[k].web_info_list)

\* A finished run in which a URL was delivered twice and the stream was
\* re-subscribed after a failure.
C2_Witness ==
    /\ pc = "done"
    /\ \E u \in Urls : delivered[u] >= 2
    /\ slept # <<>>
    /\ MonitorCalls >= 2
    /\ Last(emitted).web_info_list # <<>>

\* C3: at most one record with status 'completed' is ever emitted, a
\* 'completed' record is the last record of the run (the run is over once it
\* is emitted), and once a terminal state event has been consumed there is
\* exactly one.
C3_ExactlyOneFinalization ==
    /\ CompletedCount(emitted) <= 1
    /\ \A k \in 1..Len(emitted) :
         emitted[k].status = "completed" => (k = Len(emitted) /\ pc = "done")
    /\ terminal_consumed =>
         /\ CompletedCount(emitted) = 1
         /\ Last(emitted).status = "completed"

\* A terminal state event was consumed after some progress was reported.
C3_Witness ==
    /\ terminal_consumed
    /\ Len(emitted) >= 3
    /\ pc = "done"

\* C4: once a terminal state event has been consumed, no step emits a record
\* with status 'processing'.
C4_NoProgressAfterTerminal ==
    [][terminal_consumed =>
         \A k \in (Len(emitted) + 1)..Len(emitted') :
             emitted'[k].status # "processing"]_vars

\* A terminal state event was consumed while the service still had a page
\* the stream had not delivered and the model could still deliver events.
C4_Witness ==
    /\ terminal_consumed
    /\ nevents < MaxEvents
    /\ seen_urls # servicePages
    /\ \E u \in Urls : u \in servicePages /\ delivered[u] = 0

\* C5: after 3 stream errors in a row with no event in between, the run has
\* not raised, it is at finalization or has ended with a 'completed' record,
\* the step taken from finalization emits that record, and no step makes
\* another call on the client.
C5_BudgetExhausted ==
    /\ [](streak >= 3 =>
            /\ raised = NoError
            /\ \/ pc = "finalize"
               \/ pc = "done" /\ Last(emitted).status = "completed")
    /\ [][streak >= 3 =>
            /\ calls' = calls
            /\ pc = "finalize" =>
                 (pc' = "done" /\ raised' = NoError
                    /\ Last(emitted').status = "completed")]_vars

\* Three failures in a row after a page had been reported, and the run ended.
C5_Witness ==
    /\ streak = 3
    /\ pc = "done"
    /\ Len(all_results) = 1
    /\ MonitorCalls = 3


SourceUrls(list) == {list[i].source_url : i \in 1..Len(list)}

DeliveredUrls == {u \in Urls : delivered[u] > 0}

ClientCalls == {"WaterCrawlAPIClient", "create_crawl_request", "monitor_crawl_request"}

C8_NoUrlFailsFirst ==
    (~Truthy(source_url) /\ pc # "start") =>
        /\ pc = "raised"
        /\ raised = Exc("ValueError", "Url is required")
        /\ calls = <<>>
        /\ emitted = <<>>

\* The run with an empty url has raised.
C8_Witness ==
    /\ source_url = ""
    /\ pc = "raised"

\* C9: a crawl started with a url but no api_key ends, once past the URL
\* check, with ToolProviderCredentialValidationError "api key is required"
\* reaching the caller as raised (not wrapped), with no call made on the
\* client and no record emitted.
C9_NoApiKeyCredentialError ==
    (Truthy(source_url) /\ ~Truthy(api_key) /\ pc \notin {"start", "check_key"}) =>
        /\ pc = "raised"
        /\ raised = Exc("ToolProviderCredentialValidationError", "api key is required")
        /\ raised = cause
        /\ calls = <<>>
        /\ emitted = <<>>

\* The run with a url and an empty api_key has raised.
C9_Witness ==
    /\ Truthy(source_url)
    /\ api_key = ""
    /\ pc = "raised"

\* The class of the generic wrapped failure.
WrappedClasses ==
    {Surface(e).cls : e \in {x \in SubmitExceptions \cup StreamExceptions :
                               Surface(x) # x}}

\* C10 as stated: the error of a missing URL or API key has a class that no
\* wrapped failure has, and an error that was wrapped carries the message of
\* the exception it wraps.
C10_ValidationClassDistinct ==
    pc = "raised" =>
        /\ cause.msg \in {"Url is required", "api key is required"} =>
             raised.cls \notin WrappedClasses
        /\ raised # cause =>
             raised.msg = "Failed to crawl website: " \o cause.msg


\* C11 as stated: every failure of the validator's list request reaches the
\* caller as a ToolProviderCredentialValidationError, and, other than for
\* HTTP 401, HTTP 404 and a missing 'results' field, with the message of the
\* underlying failure.
C11_AllFailuresAreValidationErrors ==
    (validation.pc = "raised" /\ validation.calls = 1) =>
        /\ validation.raised.cls = "ToolProviderCredentialValidationError"
        /\ validation.cause.status \notin {401, 404} =>
             validation.raised.msg = validation.cause.msg


\* C12 as stated: in every run that does not raise, where each subscription
\* delivers finitely many events before it ends or fails, the orchestrator
\* eventually stops re-subscribing and emits the final 'completed' record.
C12_EventuallyFinalized ==
    <>(raised # NoError \/ (pc = "done" /\ Last(emitted).status = "completed"))


\* C13: once the crawl request has been submitted successfully the run emits
\* a first record, which has status 'processing', completed 0, an empty
\* web_info_list and total equal to the echoed page_limit; the step that
\* emits it comes after the submission and makes no call, and no stream
\* subscription is made while nothing has been emitted.
C13_InitialRecord ==
    /\ [](emitted # <<>> =>
            /\ crawl_request # NoRequest
            /\ emitted[1] = [web_info_list |-> <<>>, status |-> "processing",
                             total |-> crawl_request.page_limit, completed |-> 0])
    /\ [](emitted = <<>> => MonitorCalls = 0)
    /\ [](pc \in {"loop", "stream", "finalize", "done"} => emitted # <<>>)
    /\ [][(emitted = <<>> /\ emitted' # <<>>) =>
            /\ calls = <<"WaterCrawlAPIClient", "create_crawl_request">>
            /\ calls' = calls
            /\ Len(emitted') = 1]_vars

\* The stream has been subscribed after a first record with total 2.
C13_Witness ==
    /\ MonitorCalls >= 1
    /\ emitted # <<>>
    /\ emitted[1].total = 2
    /\ crawl_request.page_limit = 2


\* C14: the failure counter is the number of stream errors in a row since the
\* last event of any type (each error adds one, each event resets it), it
\* never exceeds 3, monitoring goes on while it is below 3 and is abandoned
\* for finalization when it is 3, and each pass of the loop makes a new
\* subscription.
C14_ConsecutiveFailuresOnly ==
    /\ [](consecutive_failures = streak)
    /\ [](consecutive_failures <= 3)
    /\ [](consecutive_failures = 3 => pc \in {"finalize", "done"})
    /\ [](pc \in {"loop", "stream"} => consecutive_failures < 3)
    /\ [][pc = "loop" =>
            /\ pc' = "stream"
            /\ calls' = Append(calls, "monitor_crawl_request")]_vars

\* One failure, then an event that added no result, then three failures in
\* a row: the run ended by the budget with nothing accumulated.
C14_Witness ==
    /\ slept = <<2, 2, 4>>
    /\ consecutive_failures = 3
    /\ nevents = 1
    /\ all_results = <<>>
    /\ pc = "done"


\* A step in which the stream delivered an event.
EventDelivered == nevents' = nevents + 1

\* C15: a result event whose URL was not delivered before in this crawl
\* causes exactly one record, of status 'processing', whose completed is one
\* more than in the previous record and equals the length of its
\* web_info_list, which is the previous record's list extended by the new
\* page; a result event whose URL was delivered before causes no record and
\* leaves the accumulated results, the seen-URL set and the current record
\* unchanged.
C15_OneRecordPerNewUrl ==
    [][(EventDelivered /\ last_event'.type = "result" /\ last_event'.url \in Urls) =>
         IF delivered[last_event'.url] = 0
         THEN /\ Len(emitted') = Len(emitted) + 1
              /\ Last(emitted').status = "processing"
              /\ Last(emitted').completed = Last(emitted).completed + 1
              /\ Last(emitted').completed = Len(Last(emitted').web_info_list)
              /\ SubSeq(Last(emitted').web_info_list, 1, Last(emitted).completed)
                   = Last(emitted).web_info_list
              /\ Last(Last(emitted').web_info_list).source_url = last_event'.url
         ELSE /\ emitted' = emitted
              /\ all_results' = all_results
              /\ seen_urls' = seen_urls
              /\ crawl_res' = crawl_res]_vars

\* Two pages were reported one after the other and one of them was then
\* delivered again.
C15_Witness ==
    /\ Len(emitted) = 3
    /\ Last(emitted).completed = 2
    /\ last_event.type = "result"
    /\ last_event.url \in Urls
    /\ delivered[last_event.url] = 2
    /\ nevents = 3


\* C16: the k-th stream error in a row is followed, for k = 1 and k = 2, by
\* one sleep of 2*k seconds and a return to the loop, and for k = 3 by no
\* sleep and finalization.
C16_LinearBackoff ==
    [][streak' = streak + 1 =>
         IF streak' < 3
         THEN /\ slept' = Append(slept, 2 * streak')
              /\ pc' = "loop"
         ELSE /\ streak' = 3
              /\ slept' = slept
              /\ pc' = "finalize"]_vars

\* Three errors in a row: slept 2 and 4 seconds, then finalization.
C16_Witness ==
    /\ slept = <<2, 4>>
    /\ streak = 3
    /\ pc = "finalize"


\* C17: a feed event, and a state event whose status is not finished, failed
\* or canceled, emits no record and leaves the accumulated results, the
\* seen-URL set and the current record's status, total and completed
\* unchanged; monitoring goes on.
C17_FeedAndProgressStateIgnored ==
    [][(/\ EventDelivered
        /\ \/ last_event'.type = "feed"
           \/ /\ last_event'.type = "state"
              /\ last_event'.status \notin {"finished", "failed", "canceled"}) =>
         /\ emitted' = emitted
         /\ all_results' = all_results
         /\ seen_urls' = seen_urls
         /\ crawl_res'.status = crawl_res.status
         /\ crawl_res'.total = crawl_res.total
         /\ crawl_res'.completed = crawl_res.completed
         /\ pc' = pc]_vars

\* A non-terminal state event was delivered after a page had been reported
\* and a feed event can follow.
C17_Witness ==
    /\ last_event = Event("state", None, "running")
    /\ Len(all_results) = 1
    /\ nevents = 2
    /\ pc = "stream"


\* The texts of a list joined by commas.
RECURSIVE Join(_)
Join(parts) ==
    IF Len(parts) = 0 THEN <<>>
    ELSE IF Len(parts) = 1 THEN parts[1]
    ELSE parts[1] \o <<",">> \o Join(Tail(parts))

SpiderListOptions == {"exclude_paths", "include_paths", "allowed_domains"}

PageListOptions == {"exclude_tags", "include_tags"}

\* What C18 says of one list-valued option and the dict it is sent in.
SentAsParts(o, dict) ==
    IF TextTruthy(params[o])
    THEN /\ o \in DOMAIN dict
         /\ Join(dict[o]) = params[o].text
         /\ \A k \in 1..Len(dict[o]) : \A i \in 1..Len(dict[o][k]) : dict[o][k][i] # ","
    ELSE o \notin DOMAIN dict

\* C18 as stated: in the submitted request every list-valued option given as
\* a comma-separated text is the sequence of its comma-separated parts, and
\* every list-valued option that is absent or empty is left out.
C18_ListOptionsSplitOrOmitted ==
    submitted # NoSubmission =>
        /\ \A o \in SpiderListOptions : SentAsParts(o, submitted.spider_options)
        /\ \A o \in PageListOptions : SentAsParts(o, submitted.page_options)


\* C19: a result event with no URL (absent or empty) emits no record and
\* leaves the accumulated results, the seen-URL set and the current record
\* unchanged; every entry of every emitted web_info_list has a non-empty
\* source URL that is in the seen-URL set.
C19_ResultWithoutUrlDropped ==
    /\ [][(EventDelivered /\ last_event'.type = "result"
             /\ last_event'.url \in {None, ""}) =>
            /\ emitted' = emitted
            /\ all_results' = all_results
            /\ seen_urls' = seen_urls
            /\ crawl_res' = crawl_res]_vars
    /\ [](\A k \in 1..Len(emitted) : \A i \in 1..Len(emitted[k].web_info_list) :
            /\ emitted[k].web_info_list[i].source_url \notin {None, ""}
            /\ emitted[k].web_info_list[i].source_url \in seen_urls)

\* The run ended with one page reported, the last event delivered having
\* been a result with an empty URL.
C19_Witness ==
    /\ last_event = Event("result", "", None)
    /\ pc = "done"
    /\ Len(Last(emitted).web_info_list) = 1
    /\ nevents = 2


\* C20: a network error raised by the submission of the crawl request ends
\* the run at once with the generic error "Failed to crawl website: ..."
\* carrying its message: the request was submitted once, no stream
\* subscription and no sleep was made, no record was emitted, and no step
\* follows.
C20_SubmitErrorNotRetried ==
    /\ [](cause.cls \in RequestExceptionClasses =>
            /\ pc = "raised"
            /\ raised = Exc("ValueError", "Failed to crawl website: " \o cause.msg)
            /\ calls = <<"WaterCrawlAPIClient", "create_crawl_request">>
            /\ slept = <<>>
            /\ emitted = <<>>)
    /\ [][cause.cls \in RequestExceptionClasses => UNCHANGED vars]_vars

\* The submission raised a connection error and the run has ended.
C20_Witness ==
    /\ cause = Exc("ConnectionError", "connection refused")
    /\ pc = "raised"
    /\ submitted # NoSubmission

====
